---- MODULE Spec2Model ----
(***************************************************************************)
(* State-machine model of src/src/app.py: the application context          *)
(* (CustomApplication), the Translator, and the two windows (MainWindow,   *)
(* SettingsWindow) with the QSettings store they share.                    *)
(*                                                                         *)
(* One action per event handler.  A handler runs to completion on the UI   *)
(* thread, so each action is the whole handler.                            *)
(***************************************************************************)
EXTENDS Integers, Sequences, FiniteSets, TLC

(***************************************************************************)
(* Values                                                                  *)
(***************************************************************************)
\* QtCore.QLocale.Language values the program names (app.py 298-301).
English == "English"
Languages == {"English", "German", "Japanese", "Filipino"}

\* QtCore.QLocale.languageToString(language).lower()  (app.py 90, 108)
languageToStringLower(language) ==
    CASE language = "English"  -> "english"
      [] language = "German"   -> "german"
      [] language = "Japanese" -> "japanese"
      [] language = "Filipino" -> "filipino"

Windows == {"main", "settings"}

\* Object names are kept split at '_' (objectName().split('_'), app.py 254).
\* The QPushButton children of frame_languages (app.py 107, 253).
frame_languages ==
    {<<"pushButton", "english">>, <<"pushButton", "german">>,
     <<"pushButton", "japanese">>, <<"pushButton", "filipino">>}

label_musicFiles == <<"label", "musicFiles">>
radioButton_preferences == <<"radioButton", "preferences">>

\* The widgets with text, per window (the Ui_* classes set them up).
WidgetsOf(window) ==
    IF window = "main" THEN {label_musicFiles}
    ELSE frame_languages \cup {radioButton_preferences}

Widgets == WidgetsOf("main") \cup WidgetsOf("settings")

\* A widget's text.  src: the source string ("static": the string of the
\* .ui file); lang: the language it is shown in; n: a number formatted in.
StaticText(lang) == [src |-> "static", lang |-> lang, n |-> 0]
BlankText == [src |-> "", lang |-> "", n |-> 0]
\* f'Total Music File/s: {len(input_paths)}'  (app.py 185)
CountText(count) == [src |-> "Total Music File/s: ", lang |-> "", n |-> count]

\* Window geometries: the screen-centered default (app.py 193-197, 335-339)
\* and the places a user can move a window to.
default_geometry == "centered"
Geometries == {"centered", "g1", "g2"}

\* Dropped URLs.  QUrl.toLocalFile() is the path of a file: URL and the
\* empty string for any other scheme (app.py 183).
FileA == [scheme |-> "file", path |-> "/a.wav"]
FileB == [scheme |-> "file", path |-> "/b.wav"]
HttpC == [scheme |-> "http", path |-> "/c.wav"]

toLocalFile(url) == IF url.scheme = "file" THEN url.path ELSE ""

\* Longest command log the model follows.
MaxLog == 2
\* Deepest stack of settings groups the model follows.
MaxOpenGroups == 2

VARIABLES
    running,              \* the process is up: CustomApplication() has returned
    settings,             \* app.settings: [disk, pending, groups]
    packs,                \* the languages whose <name>.qm file exists
    installed,            \* language of the installed translator (English: none)
    checked,              \* isChecked() of each button of frame_languages
    text,                 \* text of each widget
    retranslated,         \* retranslateUi calls per window in the last handler
    geometry,             \* geometry() of each window
    visible,              \* each window is shown
    command,              \* paragraphs of MainWindow.ui.textBrowser_command
    clearCommandVisible,  \* the visible flag of pushButton_clearCommand
    drag,                 \* the drag over label_musicFiles
    last,                 \* the last handler that ran (observation)
    closedGeometry,       \* geometry each window had at its last closeEvent
    prevRunLanguage,      \* language active when the previous run ended
    commandTouched,       \* an export or clear click happened in this run
    beforeSwitch          \* what was shown before the last handler, a language click

vars == <<running, settings, packs, installed, checked, text, retranslated,
          geometry, visible, command, clearCommandVisible, drag, last,
          closedGeometry, prevRunLanguage, commandTouched, beforeSwitch>>

(***************************************************************************)
(* QSettings: keys are paths (sequences of names); setValue stages,        *)
(* sync commits.                                                           *)
(***************************************************************************)
EmptyStore == [k \in {} |-> ""]

Put(store, key, v) ==
    [k \in (DOMAIN store) \cup {key} |-> IF k = key THEN v ELSE store[k]]

FullKey(s, key) == s.groups \o key

QSettings == [disk |-> EmptyStore, pending |-> EmptyStore, groups |-> <<>>]

beginGroup(s, prefix) == [s EXCEPT !.groups = Append(@, prefix)]

endGroup(s) ==
    IF s.groups = <<>> THEN s
    ELSE [s EXCEPT !.groups = SubSeq(@, 1, Len(@) - 1)]

value(s, key, default) ==
    LET k == FullKey(s, key) IN
    IF k \in DOMAIN s.pending THEN s.pending[k]
    ELSE IF k \in DOMAIN s.disk THEN s.disk[k]
    ELSE default

setValue(s, key, v) == [s EXCEPT !.pending = Put(@, FullKey(s, key), v)]

sync(s) ==
    [s EXCEPT
        !.disk = [k \in (DOMAIN s.disk) \cup (DOMAIN s.pending) |->
                    IF k \in DOMAIN s.pending THEN s.pending[k] ELSE s.disk[k]],
        !.pending = EmptyStore]

KeyLanguage == <<"language">>
KeyInputPaths == <<"seperation", "input_paths">>
KeyGeometry == <<"geometry">>

\* The group of each window (app.py 200, 213, 342, 355).
GroupOf(window) == IF window = "main" THEN "mainwindow" ELSE "settingswindow"

(***************************************************************************)
(* The translated user interface.  A record g holds what load_language     *)
(* and the Ui_* classes change: [installed, checked, text, retranslated].  *)
(***************************************************************************)
NoCalls == [w \in Windows |-> 0]

\* Ui_MainWindow.retranslateUi / Ui_SettingsWindow.retranslateUi: every
\* static text of the window is set to its translation by the installed
\* translator (the source string when none is installed).
retranslateUi(g, window) ==
    [g EXCEPT !.text = [w \in Widgets |->
                          IF w \in WidgetsOf(window)
                          THEN StaticText(g.installed) ELSE g.text[w]]]

\* MainWindow.update_translation / SettingsWindow.update_translation
update_translation(g, window) ==
    [retranslateUi(g, window) EXCEPT !.retranslated[window] = @ + 1]

\* self.app.removeTranslator(self._translator)  (app.py 85-87)
removeTranslator(g) == [g EXCEPT !.installed = English]

\* self._translator.load(path); self.app.installTranslator(...)  (app.py 98-99)
installTranslator(g, language) == [g EXCEPT !.installed = language]

\* os.path.isfile(translation_path)  (app.py 91-92)
isfile(language) == language \in packs

\* The loop over frame_languages (app.py 107-115).
UpdateCheckedButtons(g, language) ==
    [g EXCEPT !.checked =
        [button \in frame_languages |->
            button = <<"pushButton", languageToStringLower(language)>>]]

\* The loop over app.windows (app.py 104-105), in the order of the dict.
UpdateWindows(g) == update_translation(update_translation(g, "main"), "settings")

\* load_language as it would run with the `return` of line 96 missing: the
\* fallback is followed by the rest of the method for the missing language.
load_language_NoReturn(g, language, hasWindows) ==
    LET fallback == IF language # English /\ ~isfile(language)
                    THEN (IF hasWindows
                          THEN UpdateCheckedButtons(UpdateWindows(removeTranslator(g)), English)
                          ELSE removeTranslator(g))
                    ELSE g
        g1 == IF language = English THEN removeTranslator(fallback)
              ELSE IF isfile(language) THEN installTranslator(fallback, language)
              ELSE fallback
    IN  IF hasWindows THEN UpdateCheckedButtons(UpdateWindows(g1), language) ELSE g1

\* Translator.load_language  (app.py 79-115)
RECURSIVE load_language(_, _, _)
load_language(g, language, hasWindows) ==
    IF language # English /\ ~isfile(language)
    THEN load_language(g, English, hasWindows)
    ELSE LET g1 == IF language = English THEN removeTranslator(g)
                   ELSE installTranslator(g, language)
         IN  IF hasWindows
             THEN UpdateCheckedButtons(UpdateWindows(g1), language)
             ELSE g1

\* Ui_SettingsWindow.setupUi: the checked state the .ui file gives the
\* language buttons (the default-language button is the checked one).
UiChecked == [button \in frame_languages |-> button = <<"pushButton", "english">>]

\* Ui_SettingsWindow.setupUi: a widget is visible unless hidden.
UiClearCommandVisible == TRUE

\* The user interface of a process before any window is built.
NoGui == [installed |-> English, checked |-> UiChecked,
          text |-> [w \in Widgets |-> BlankText], retranslated |-> NoCalls]

\* The user interface at the start of a handler.
Gui == [installed |-> installed, checked |-> checked, text |-> text,
        retranslated |-> NoCalls]

\* Ui_*.setupUi ends with retranslateUi(window).
setupUi(g, window) == retranslateUi(g, window)

\* SettingsWindow.setup_widgets: button.setText('') on every language
\* button  (app.py 253-255)
SettingsWindow_setup_widgets(g) ==
    [g EXCEPT !.text = [w \in Widgets |->
                          IF w \in frame_languages THEN BlankText ELSE g.text[w]]]

(***************************************************************************)
(* Window settings.  load_settings gives [settings, geometry].             *)
(***************************************************************************)
\* MainWindow.load_settings  (app.py 187-206)
MainWindow_load_settings(s) ==
    LET s1 == beginGroup(s, "mainwindow") IN
    [settings |-> endGroup(s1), geometry |-> value(s1, KeyGeometry, default_geometry)]

\* SettingsWindow.load_settings  (app.py 329-348)
SettingsWindow_load_settings(s) ==
    LET s1 == beginGroup(s, "settingswindow") IN
    [settings |-> endGroup(s1), geometry |-> value(s1, KeyGeometry, default_geometry)]

\* save_settings without the commit of line 218.
MainWindow_save_settings_NoSync(s, geo) ==
    endGroup(setValue(beginGroup(s, "mainwindow"), KeyGeometry, geo))

\* MainWindow.save_settings  (app.py 208-218)
MainWindow_save_settings(s, geo) ==
    sync(endGroup(setValue(beginGroup(s, "mainwindow"), KeyGeometry, geo)))

\* save_settings writing under the other window's group.
SettingsWindow_save_settings_WrongGroup(s, geo) ==
    sync(endGroup(setValue(beginGroup(s, "mainwindow"), KeyGeometry, geo)))

\* SettingsWindow.save_settings  (app.py 350-360)
SettingsWindow_save_settings(s, geo) ==
    sync(endGroup(setValue(beginGroup(s, "settingswindow"), KeyGeometry, geo)))

\* write_to_command without the setVisible(True) of line 153.
write_to_command_NoShow(cmd, line, hasWindows, clearVisible) ==
    [command |-> Append(cmd, line), clearVisible |-> clearVisible]

\* MainWindow.write_to_command  (app.py 147-153): [command, clearVisible]
write_to_command(cmd, line, hasWindows, clearVisible) ==
    [command |-> Append(cmd, line),
     clearVisible |-> IF hasWindows THEN TRUE ELSE clearVisible]

\* MainWindow.label_musicFiles_dragEnterEvent  (app.py 166-175): accepted?
label_musicFiles_dragEnterEvent(urls) == urls # <<>>

\* The list built by the loop of label_musicFiles_dropEvent (app.py 181-183)
InputPaths(urls) == [i \in 1..Len(urls) |-> toLocalFile(urls[i])]

\* dropEvent adding the dropped paths to the stored list.
label_musicFiles_dropEvent_Appends(s, urls) ==
    LET paths == value(s, KeyInputPaths, <<>>) \o InputPaths(urls) IN
    [settings |-> setValue(s, KeyInputPaths, paths),
     label |-> CountText(Len(paths))]

\* MainWindow.label_musicFiles_dropEvent  (app.py 177-185): [settings, label]
label_musicFiles_dropEvent(s, urls) ==
    [settings |-> setValue(s, KeyInputPaths, InputPaths(urls)),
     label |-> CountText(Len(InputPaths(urls)))]

NoDrag == [state |-> "none", urls |-> <<>>, accepted |-> FALSE]
NoGeometry == [w \in Windows |-> "none"]
Event(op, arg) == [op |-> op, arg |-> arg]
NoSwitch == [set |-> FALSE, installed |-> English,
             text |-> [w \in Widgets |-> BlankText]]

(***************************************************************************)
(* Initial states: the process is down; the store and the localization     *)
(* directory are what an earlier run or an installation left.              *)
(***************************************************************************)
\* The settings a process leaves behind: memory is gone, the store stays.
Down(s) == [disk |-> s.disk, pending |-> EmptyStore, groups |-> <<>>]

InitWith(PackChoices, LanguageChoices) ==
    /\ running = FALSE
    /\ packs \in PackChoices
    /\ \E l \in LanguageChoices :
          settings = [QSettings EXCEPT !.disk =
                         IF l = "unset" THEN EmptyStore
                         ELSE Put(EmptyStore, KeyLanguage, l)]
    /\ installed = English
    /\ checked = UiChecked
    /\ text = [w \in Widgets |-> BlankText]
    /\ retranslated = NoCalls
    /\ geometry = [w \in Windows |-> default_geometry]
    /\ visible = [w \in Windows |-> FALSE]
    /\ command = <<>>
    /\ clearCommandVisible = UiClearCommandVisible
    /\ drag = NoDrag
    /\ last = Event("none", "")
    /\ closedGeometry = NoGeometry
    /\ prevRunLanguage = "none"
    /\ commandTouched = FALSE
    /\ beforeSwitch = NoSwitch

(***************************************************************************)
(* Actions                                                                 *)
(***************************************************************************)
\* run() -> CustomApplication.__init__  (app.py 33-58, 377-383)
Startup ==
    /\ ~running
    /\ LET s0 == Down(settings)
           \* Translator.__init__: app.windows does not exist yet
           g1 == load_language(NoGui, value(s0, KeyLanguage, English), FALSE)
           \* MainWindow.__init__
           g2 == setupUi(g1, "main")
           m  == MainWindow_load_settings(s0)
           \* SettingsWindow.__init__
           g3 == SettingsWindow_setup_widgets(setupUi(g2, "settings"))
           w  == SettingsWindow_load_settings(m.settings)
       IN  /\ settings' = w.settings
           /\ installed' = g3.installed
           /\ checked' = g3.checked
           /\ text' = g3.text
           /\ retranslated' = g3.retranslated
           /\ geometry' = [x \in Windows |->
                             IF x = "main" THEN m.geometry ELSE w.geometry]
    /\ running' = TRUE
    /\ visible' = [x \in Windows |-> x = "main"]
    /\ command' = <<>>
    /\ clearCommandVisible' = UiClearCommandVisible
    /\ drag' = NoDrag
    /\ commandTouched' = FALSE
    /\ last' = Event("startup", "")
    /\ beforeSwitch' = NoSwitch
    /\ UNCHANGED <<packs, closedGeometry, prevRunLanguage>>

\* A language click that also stores the language as the preference.
LanguageClicked_Persists(language) ==
    /\ running /\ visible["settings"]
    /\ LET g == load_language(Gui, language, TRUE)
       IN  /\ installed' = g.installed
           /\ checked' = g.checked
           /\ text' = g.text
           /\ retranslated' = g.retranslated
    /\ settings' = sync(setValue(settings, KeyLanguage, language))
    /\ last' = Event("load_language", language)
    /\ beforeSwitch' = [set |-> TRUE, installed |-> installed, text |-> text]
    /\ UNCHANGED <<running, packs, geometry, visible, command,
                   clearCommandVisible, drag, closedGeometry, prevRunLanguage,
                   commandTouched>>

\* The clicked handler of a language button  (app.py 298-301)
LanguageClicked(language) ==
    /\ running /\ visible["settings"]
    /\ LET g == load_language(Gui, language, TRUE)
       IN  /\ installed' = g.installed
           /\ checked' = g.checked
           /\ text' = g.text
           /\ retranslated' = g.retranslated
    /\ last' = Event("load_language", language)
    /\ beforeSwitch' = [set |-> TRUE, installed |-> installed, text |-> text]
    /\ UNCHANGED <<running, settings, packs, geometry, visible, command,
                   clearCommandVisible, drag, closedGeometry, prevRunLanguage,
                   commandTouched>>

pushButton_english_clicked == LanguageClicked("English")
pushButton_german_clicked == LanguageClicked("German")
pushButton_japanese_clicked == LanguageClicked("Japanese")
pushButton_filipino_clicked == LanguageClicked("Filipino")

\* MainWindow.pushButton_settings_clicked  (app.py 156-164)
pushButton_settings_clicked ==
    /\ running /\ visible["main"]
    /\ visible' = [visible EXCEPT !["settings"] = TRUE]
    /\ retranslated' = NoCalls
    /\ beforeSwitch' = NoSwitch
    /\ last' = Event("other", "")
    /\ UNCHANGED <<running, settings, packs, installed, checked, text, geometry,
                   command, clearCommandVisible, drag, closedGeometry,
                   prevRunLanguage, commandTouched>>

\* A drag enters label_musicFiles: Qt calls the widget's dragEnterEvent.
dragEnterEvent(urls) ==
    /\ running /\ visible["main"]
    /\ drag' = [state |-> "over", urls |-> urls,
                accepted |-> label_musicFiles_dragEnterEvent(urls)]
    /\ retranslated' = NoCalls
    /\ beforeSwitch' = NoSwitch
    /\ last' = Event("other", "")
    /\ UNCHANGED <<running, settings, packs, installed, checked, text, geometry,
                   visible, command, clearCommandVisible, closedGeometry,
                   prevRunLanguage, commandTouched>>

\* The drag is released over label_musicFiles: Qt calls the widget's
\* dropEvent when the drag was accepted, and drops nothing otherwise.
dropEvent ==
    /\ running /\ visible["main"]
    /\ drag.state = "over"
    /\ IF drag.accepted
       THEN LET d == label_musicFiles_dropEvent(settings, drag.urls)
            IN  /\ settings' = d.settings
                /\ text' = [text EXCEPT ![label_musicFiles] = d.label]
                /\ last' = Event("drop", "delivered")
       ELSE /\ UNCHANGED <<settings, text>>
            /\ last' = Event("drop", "ignored")
    /\ drag' = [drag EXCEPT !.state = "dropped"]
    /\ retranslated' = NoCalls
    /\ beforeSwitch' = NoSwitch
    /\ UNCHANGED <<running, packs, installed, checked, geometry, visible,
                   command, clearCommandVisible, closedGeometry,
                   prevRunLanguage, commandTouched>>

\* The user moves or resizes a shown window: geometry() changes.
WindowMoved(window, geo) ==
    /\ running /\ visible[window]
    /\ geometry[window] # geo
    /\ geometry' = [geometry EXCEPT ![window] = geo]
    /\ retranslated' = NoCalls
    /\ beforeSwitch' = NoSwitch
    /\ last' = Event("other", "")
    /\ UNCHANGED <<running, settings, packs, installed, checked, text, visible,
                   command, clearCommandVisible, drag, closedGeometry,
                   prevRunLanguage, commandTouched>>

\* MainWindow.closeEvent  (app.py 220-226)
MainWindow_closeEvent ==
    /\ running /\ visible["main"]
    /\ settings' = MainWindow_save_settings(settings, geometry["main"])
    /\ visible' = [visible EXCEPT !["main"] = FALSE]
    /\ closedGeometry' = [closedGeometry EXCEPT !["main"] = geometry["main"]]
    /\ drag' = NoDrag
    /\ retranslated' = NoCalls
    /\ beforeSwitch' = NoSwitch
    /\ last' = Event("closeEvent", "main")
    /\ UNCHANGED <<running, packs, installed, checked, text, geometry, command,
                   clearCommandVisible, prevRunLanguage, commandTouched>>

\* SettingsWindow.closeEvent  (app.py 362-368)
SettingsWindow_closeEvent ==
    /\ running /\ visible["settings"]
    /\ settings' = SettingsWindow_save_settings(settings, geometry["settings"])
    /\ visible' = [visible EXCEPT !["settings"] = FALSE]
    /\ closedGeometry' = [closedGeometry EXCEPT !["settings"] = geometry["settings"]]
    /\ retranslated' = NoCalls
    /\ beforeSwitch' = NoSwitch
    /\ last' = Event("closeEvent", "settings")
    /\ UNCHANGED <<running, packs, installed, checked, text, geometry, command,
                   clearCommandVisible, drag, prevRunLanguage, commandTouched>>

\* The clicked handler bound by setup_late_widgets  (app.py 67-68)
pushButton_exportDirectory_clicked ==
    /\ running /\ visible["settings"]
    /\ Len(command) < MaxLog
    /\ LET c == write_to_command(command, "AYAAYAYA", TRUE, clearCommandVisible)
       IN  /\ command' = c.command
           /\ clearCommandVisible' = c.clearVisible
    /\ commandTouched' = TRUE
    /\ retranslated' = NoCalls
    /\ beforeSwitch' = NoSwitch
    /\ last' = Event("other", "")
    /\ UNCHANGED <<running, settings, packs, installed, checked, text, geometry,
                   visible, drag, closedGeometry, prevRunLanguage>>

\* SettingsWindow.pushButton_clearCommand_clicked  (app.py 322-327); only a
\* visible button can be clicked.
pushButton_clearCommand_clicked ==
    /\ running /\ visible["settings"]
    /\ clearCommandVisible
    /\ command' = <<>>
    /\ clearCommandVisible' = FALSE
    /\ commandTouched' = TRUE
    /\ retranslated' = NoCalls
    /\ beforeSwitch' = NoSwitch
    /\ last' = Event("other", "")
    /\ UNCHANGED <<running, settings, packs, installed, checked, text, geometry,
                   visible, drag, closedGeometry, prevRunLanguage>>

\* app.exec_() returns when the last shown window has been closed, and the
\* process ends (app.py 383).  What was only in memory is gone.
Quit ==
    /\ running
    /\ \A w \in Windows : ~visible[w]
    /\ running' = FALSE
    /\ settings' = Down(settings)
    /\ prevRunLanguage' = installed
    /\ installed' = English
    /\ checked' = UiChecked
    /\ text' = [w \in Widgets |-> BlankText]
    /\ retranslated' = NoCalls
    /\ beforeSwitch' = NoSwitch
    /\ geometry' = [w \in Windows |-> default_geometry]
    /\ command' = <<>>
    /\ clearCommandVisible' = UiClearCommandVisible
    /\ drag' = NoDrag
    /\ commandTouched' = FALSE
    /\ last' = Event("quit", "")
    /\ UNCHANGED <<packs, visible, closedGeometry>>

\* save_settings of a window when the write inside the group raises: the
\* exception leaves the method before endGroup and sync (app.py 213-218,
\* 355-360), and closeEvent before event.accept().
closeEvent_raises(window) ==
    /\ running /\ visible[window]
    /\ Len(settings.groups) < MaxOpenGroups
    /\ settings' = beginGroup(settings, GroupOf(window))
    /\ visible' = [visible EXCEPT ![window] = FALSE]
    /\ drag' = IF window = "main" THEN NoDrag ELSE drag
    /\ retranslated' = NoCalls
    /\ beforeSwitch' = NoSwitch
    /\ last' = Event("closeEvent raised", window)
    /\ UNCHANGED <<running, packs, installed, checked, text, geometry, command,
                   clearCommandVisible, closedGeometry, prevRunLanguage,
                   commandTouched>>

(***************************************************************************)
(* Inputs and specifications.  Spec is the whole program.  The other       *)
(* specifications run the same actions and draw the inputs of the          *)
(* handlers they are not about from smaller sets.                          *)
(***************************************************************************)
AllPacks == SUBSET (Languages \ {English})
AllPreferences == Languages \cup {"unset"}
Payloads == {<<>>, <<FileA>>, <<FileB, FileA>>, <<HttpC>>, <<FileA, HttpC>>}
OnePayload == {<<FileA>>}

Lifecycle ==
    \/ Startup
    \/ pushButton_settings_clicked
    \/ MainWindow_closeEvent
    \/ SettingsWindow_closeEvent
    \/ Quit

LanguageClicks ==
    \/ pushButton_english_clicked
    \/ pushButton_german_clicked
    \/ pushButton_japanese_clicked
    \/ pushButton_filipino_clicked

CommandClicks ==
    \/ pushButton_exportDirectory_clicked
    \/ pushButton_clearCommand_clicked

Init == InitWith(AllPacks, AllPreferences)

Next ==
    \/ Lifecycle
    \/ LanguageClicks
    \/ \E urls \in Payloads : dragEnterEvent(urls)
    \/ dropEvent
    \/ \E w \in Windows, geo \in Geometries : WindowMoved(w, geo)
    \/ CommandClicks

Spec == Init /\ [][Next]_vars

\* Language: every localization directory and every persisted preference.
InitLanguage == InitWith(AllPacks, AllPreferences)

NextLanguage ==
    \/ Lifecycle
    \/ LanguageClicks
    \/ \E urls \in OnePayload : dragEnterEvent(urls)
    \/ dropEvent

SpecLanguage == InitLanguage /\ [][NextLanguage]_vars

\* Drops: every payload.
InitDrop == InitWith({{"German"}}, {"unset"})

NextDrop ==
    \/ Lifecycle
    \/ LanguageClicks
    \/ \E urls \in Payloads : dragEnterEvent(urls)
    \/ dropEvent

SpecDrop == InitDrop /\ [][NextDrop]_vars

\* Geometry: every move of both windows.
InitGeometry == InitWith({{"German"}}, {"unset"})

NextGeometry ==
    \/ Lifecycle
    \/ LanguageClicks
    \/ \E urls \in OnePayload : dragEnterEvent(urls)
    \/ dropEvent
    \/ \E w \in Windows, geo \in Geometries : WindowMoved(w, geo)

SpecGeometry == InitGeometry /\ [][NextGeometry]_vars

\* Command log.
InitCommand == InitWith({{"German"}}, {"unset"})

NextCommand ==
    \/ Lifecycle
    \/ LanguageClicks
    \/ \E urls \in OnePayload : dragEnterEvent(urls)
    \/ dropEvent
    \/ \E geo \in Geometries : WindowMoved("main", geo)
    \/ CommandClicks

SpecCommand == InitCommand /\ [][NextCommand]_vars

\* A write to the store that raises.
InitErrors == InitWith({{"German"}}, {"unset"})

NextErrors ==
    \/ Lifecycle
    \/ \E w \in Windows : closeEvent_raises(w)
    \/ \E urls \in OnePayload : dragEnterEvent(urls)
    \/ dropEvent

SpecErrors == InitErrors /\ [][NextErrors]_vars

(***************************************************************************)
(* Properties                                                              *)
(***************************************************************************)
Missing(language) == language # English /\ language \notin packs

\* The language load_language ends in for a preference.
Effective(language) == IF Missing(language) THEN English ELSE language

\* The selector button of a language.
ButtonOf(language) == <<"pushButton", languageToStringLower(language)>>

\* C1: a click that calls load_language(L) for a language L whose pack file
\* is missing ends exactly as load_language(English) called in the same
\* state would: the same installed translator (none), every window
\* retranslated the same number of times to the same text, and the same
\* checked state of every language button.  The call of a start, made
\* before the windows exist, ends likewise as load_language(English) would.
C1_MissingPackIsDefault ==
    [][/\ \A L \in Languages :
          (last'.op = "load_language" /\ last'.arg = L /\ Missing(L))
          => LET e == load_language(Gui, English, TRUE)
             IN  /\ installed' = e.installed /\ installed' = English
                 /\ retranslated' = e.retranslated
                 /\ text' = e.text
                 /\ checked' = e.checked
       /\ (last'.op = "startup" /\ Missing(value(settings, KeyLanguage, English)))
          => LET e == load_language(NoGui, English, FALSE)
             IN  /\ installed' = e.installed /\ installed' = English
                 /\ retranslated' = e.retranslated
                 /\ checked' = e.checked]_vars

C1_Witness ==
    /\ last.op = "load_language" /\ Missing(last.arg)
    /\ beforeSwitch.installed = "German"
    /\ installed = English
    /\ retranslated = [w \in Windows |-> 1]
    /\ checked[ButtonOf(English)] /\ ~checked[ButtonOf(last.arg)]

\* C2: while the application runs, the button of the active language is
\* checked and every other language button is unchecked.
C2_SelectorShowsActive ==
    running => \A button \in frame_languages :
                  checked[button] <=> (button = ButtonOf(installed))

NoFileUrl(urls) == \A i \in 1..Len(urls) : urls[i].scheme # "file"
OnlyFileUrls(urls) == \A i \in 1..Len(urls) : urls[i].scheme = "file"

\* C3: a drop whose payload holds no file URL leaves the store (so
\* seperation/input_paths) and the text of label_musicFiles unchanged.
C3_NoFileUrlNoChange ==
    [][(last'.op = "drop" /\ NoFileUrl(drag.urls))
       => (settings' = settings /\ text'[label_musicFiles] = text[label_musicFiles])]_vars

C5_GeometryRoundTrip ==
    last.op = "startup"
    => \A w \in Windows :
          closedGeometry[w] # "none" => geometry[w] = closedGeometry[w]

C5_Witness ==
    /\ last.op = "startup"
    /\ closedGeometry = [w \in Windows |-> IF w = "main" THEN "g1" ELSE "g2"]
    /\ geometry = closedGeometry
    /\ KeyInputPaths \in DOMAIN settings.disk
    /\ prevRunLanguage = "German"

\* C6: load_language(L) for a present pack L, called while the default
\* language is shown, followed by load_language(English), leaves every
\* widget with the text it had before the first call.
C6_SwitchAndBackRestoresText ==
    [][(/\ last.op = "load_language" /\ last.arg # English /\ ~Missing(last.arg)
        /\ beforeSwitch.set /\ beforeSwitch.installed = English
        /\ last'.op = "load_language" /\ last'.arg = English)
       => text' = beforeSwitch.text]_vars

WindowKeys ==
    {<<GroupOf(w)>> \o KeyGeometry : w \in Windows} \cup {KeyLanguage, KeyInputPaths}

\* C7: when a handler has returned no settings group is open, and the store
\* holds no key under a prefix other than its own.
C7_GroupsClosed ==
    /\ settings.groups = <<>>
    /\ (DOMAIN settings.pending) \cup (DOMAIN settings.disk) \subseteq WindowKeys

\* C8: when a closeEvent has returned nothing staged is left uncommitted, and
\* so when the last window has been closed and the process is about to end.
C8_FlushedOnClose ==
    /\ last.op = "closeEvent" => DOMAIN settings.pending = {}
    /\ (running /\ \A w \in Windows : ~visible[w]) => DOMAIN settings.pending = {}

C8_Witness ==
    /\ last.op = "closeEvent" /\ last.arg = "settings"
    /\ visible["main"]
    /\ KeyInputPaths \in DOMAIN settings.disk
    /\ settings.disk[KeyInputPaths] = <<"/b.wav", "/a.wav">>
    /\ DOMAIN settings.pending = {}

\* What the store holds, staged or committed, for the key 'language'.
LanguageEntries(s) ==
    <<value([s EXCEPT !.groups = <<>>, !.pending = EmptyStore], KeyLanguage, "unset"),
      value([s EXCEPT !.groups = <<>>, !.disk = EmptyStore], KeyLanguage, "unset")>>

\* C9: no step changes what the store holds for 'language', and right after
\* a start the active language is the one the persisted preference gives.
C9_LanguageNeverWritten ==
    /\ [][LanguageEntries(settings') = LanguageEntries(settings)]_vars
    /\ [](last.op = "startup"
          => installed = Effective(value(settings, KeyLanguage, English)))

C9_Witness ==
    /\ last.op = "startup"
    /\ prevRunLanguage = "German"
    /\ value(settings, KeyLanguage, "unset") = "Japanese"
    /\ installed = "Japanese"

\* C10: once an export or clear click has happened, pushButton_clearCommand
\* is visible exactly when the command log is not empty.
C10_ClearVisibleIffLog ==
    (running /\ commandTouched) => (clearCommandVisible <=> command # <<>>)

C10_Witness ==
    /\ commandTouched /\ Len(command) = 2 /\ clearCommandVisible
    /\ installed = "German" /\ ~visible["settings"]
    /\ geometry["main"] = "g1"

====
